---- MODULE Spec2Model ----
(***************************************************************************)
(* The sheet-to-catalog reconciler of the film club site                   *)
(* (.github/scripts/sync_sheet_to_json.py): update_json_from_sheet and the *)
(* two metadata providers it calls, as a state machine over passes.        *)
(*                                                                         *)
(* A pass is: load the catalog file, process the sheet row by row, write   *)
(* the catalog back when something changed.  The catalog file, the sheet   *)
(* and the providers' HTTP answers are the environment.                    *)
(***************************************************************************)
EXTENDS Integers, Sequences, FiniteSets, TLC

(***************************************************************************)
(* Bounds of the model.                                                    *)
(***************************************************************************)
MaxRows == 2
MaxPasses == 2

(***************************************************************************)
(* Python values.  None stands for None and for the NaN of an empty sheet  *)
(* cell (get_sheet_data replaces every null by None, line 154); Absent for *)
(* a key a dict does not hold.  A rating cell is its text, one character   *)
(* per element; NaN is the empty rating cell.                              *)
(***************************************************************************)
None == "None"
Absent == "Absent"
NaN == <<"NaN">>

\* pd.isna on a text cell and on a rating cell.
pd_isna(x) == x = None
pd_isna_rating(x) == x = NaN

\* Python truthiness of a cell or credential: None and "" are false.
Truthy(x) == x # None /\ x # "" /\ x # Absent

\* dict.get(key): None when the key is absent.
DictGet(x) == IF x = Absent THEN None ELSE x

\* str.lower() on the member names the model uses.
Lower(s) ==
    CASE s = "Andy" -> "andy"
      [] s = "Gabe" -> "gabe"
      [] OTHER -> s

(***************************************************************************)
(* Scores.  float(text) is computed digit by digit; a number is kept as    *)
(* its integer part and its fraction digits without trailing zeros, so     *)
(* that 8, 8.0 and 8.00 are one value and is_integer() is "no fraction".   *)
(* kind tells what json stores: int, float, nan, str, null, or absent (no  *)
(* "score" key).                                                           *)
(***************************************************************************)
Digits == <<"0", "1", "2", "3", "4", "5", "6", "7", "8", "9">>

IsDigit(c) == \E i \in 1..Len(Digits) : Digits[i] = c

DigitVal(c) == (CHOOSE i \in 1..Len(Digits) : Digits[i] = c) - 1

RECURSIVE DigitsValue(_)
DigitsValue(ds) ==
    IF ds = <<>> THEN 0
    ELSE DigitsValue(SubSeq(ds, 1, Len(ds) - 1)) * Len(Digits) + DigitVal(ds[Len(ds)])

RECURSIVE StripZeros(_)
StripZeros(ds) ==
    IF ds # <<>> /\ ds[Len(ds)] = "0" THEN StripZeros(SubSeq(ds, 1, Len(ds) - 1)) ELSE ds

Score(kind, ip, fp, raw) == [kind |-> kind, ip |-> ip, fp |-> fp, raw |-> raw]
NullScore == Score("null", 0, <<>>, <<>>)
AbsentScore == Score("absent", 0, <<>>, <<>>)
NanScore == Score("nan", 0, <<>>, <<>>)
IntScore(n) == Score("int", n, <<>>, <<>>)
FloatScore(n, fp) == Score("float", n, fp, <<>>)
StrScore(raw) == Score("str", 0, <<>>, raw)

\* float(text): [ok |-> FALSE] is ValueError.  Over the model's alphabet
\* (digits, ".", "n", "a", "/") the accepted texts are digits with at most
\* one point and at least one digit, and "nan".
AllDigits(ds) == \A i \in 1..Len(ds) : IsDigit(ds[i])

ParseDecimal(ipart, fpart) ==
    IF Len(ipart) + Len(fpart) >= 1 /\ AllDigits(ipart) /\ AllDigits(fpart)
    THEN [ok |-> TRUE, val |-> FloatScore(DigitsValue(ipart), StripZeros(fpart))]
    ELSE [ok |-> FALSE, val |-> NullScore]

SplitAt(text, dot) == ParseDecimal(SubSeq(text, 1, dot - 1), SubSeq(text, dot + 1, Len(text)))

PyFloat(text) ==
    IF text = <<"n", "a", "n">> THEN [ok |-> TRUE, val |-> NanScore]
    ELSE IF \E i \in 1..Len(text) : text[i] = "."
         THEN SplitAt(text, CHOOSE i \in 1..Len(text) : text[i] = ".")
         ELSE ParseDecimal(text, <<>>)

\* float_val.is_integer()
is_integer(f) == f.kind = "float" /\ f.fp = <<>>

\* Lines 237-242 (lines 304-308 on the path of a new film): None for an
\* empty cell, int for a whole number, float otherwise, the text itself
\* when float() raises ValueError.
TypedScore(rating_val_sheet, f) ==
    IF ~f.ok THEN StrScore(rating_val_sheet)
    ELSE IF is_integer(f.val) THEN IntScore(f.val.ip)
    ELSE f.val

NormalizeScore(rating_val_sheet) ==
    IF pd_isna_rating(rating_val_sheet) THEN NullScore
    ELSE TypedScore(rating_val_sheet, PyFloat(rating_val_sheet))

\* Line 243: the blurb, None for an empty cell.
NormalizeBlurb(blurb_val_sheet) ==
    IF pd_isna(blurb_val_sheet) THEN None ELSE blurb_val_sheet

\* Python's != on stored scores: numbers compare by value (8 == 8.0), nan
\* differs from everything, an absent key reads as None.
ScoreGet(s) == IF s.kind = "absent" THEN NullScore ELSE s

IsNumber(s) == s.kind \in {"int", "float"}

ValueNe(x, y) ==
    IF x.kind = "nan" \/ y.kind = "nan" THEN TRUE
    ELSE IF IsNumber(x) /\ IsNumber(y) THEN x.ip # y.ip \/ x.fp # y.fp
    ELSE x # y

ScoreNe(a, b) == ValueNe(ScoreGet(a), ScoreGet(b))

(***************************************************************************)
(* The catalog.  A film is a dict; the model keeps the keys the reconciler *)
(* reads or writes: imdbID, the enrichment flag, the crew fields, the      *)
(* movieClubInfo block, and title for the rest of the provider's metadata. *)
(* A crew field holds the names joined by ", ", modelled as the sorted     *)
(* sequence of names; the empty sequence is an absent key (a joined field  *)
(* always holds at least one name).                                        *)
(***************************************************************************)
users == <<"andy", "gabe", "jacob", "joey", "greg">>

EXPECTED_TMDB_CREW_FIELDS ==
    {"cinematographer", "editor", "productionDesigner", "musicComposer", "costumeDesigner"}

NoCrew == [f \in EXPECTED_TMDB_CREW_FIELDS |-> <<>>]

\* {"clubRatings": [], "trophyInfo": None}, the block line 206 creates.
EmptyClubInfo ==
    [present |-> TRUE, selector |-> Absent, watchDate |-> Absent, trophyNotes |-> Absent,
     trophyInfo |-> None, hasClubRatings |-> TRUE, clubRatings |-> <<>>]

\* A film without the movieClubInfo key.
NoClubInfo ==
    [present |-> FALSE, selector |-> Absent, watchDate |-> Absent, trophyNotes |-> Absent,
     trophyInfo |-> Absent, hasClubRatings |-> FALSE, clubRatings |-> <<>>]

Film(imdbID, title, flag, crew, club) ==
    [imdbID |-> imdbID, title |-> title, tmdbCrewDataFetched |-> flag,
     crew |-> crew, movieClubInfo |-> club]

RatingEntry(user, score, blurb) == [user |-> user, score |-> score, blurb |-> blurb]

(***************************************************************************)
(* The sheet: the columns the data frame has and its rows.  row.get(col)   *)
(* is None for a column the frame does not have.                           *)
(***************************************************************************)
HasCol(cols, col) == col \in cols.plain
HasRatingCol(cols, user) == user \in cols.rating
HasBlurbCol(cols, user) == user \in cols.blurb

RowGet(row, cols, col) ==
    IF ~HasCol(cols, col) THEN None
    ELSE CASE col = "imdb_id" -> row.imdb_id
           [] col = "watch_date" -> row.watch_date
           [] col = "selected_by" -> row.selected_by
           [] col = "trophy_notes" -> row.trophy_notes

RowGetRating(row, cols, user) == IF HasRatingCol(cols, user) THEN row.rating[user] ELSE NaN
RowGetBlurb(row, cols, user) == IF HasBlurbCol(cols, user) THEN row.blurb[user] ELSE None

\* get_sheet_data, lines 149 and 154: pd.read_csv reads an empty field and
\* the texts of its default na_values ("n/a", "nan", "NA", "null", ...) as
\* NaN, which line 154 makes None; any other text is the cell.  (A column of
\* numbers only is read as numbers; float() of the number is float() of its
\* text.)
NaTexts == {<<>>, <<"n", "/", "a">>, <<"n", "a", "n">>}

read_csv(text) == IF text \in NaTexts THEN NaN ELSE text

(***************************************************************************)
(* Lines 223-254: the ratings of an existing film merged with a row.       *)
(* current_ratings_dict is built once from the entries the film has, the   *)
(* last entry of a member winning; an entry appended in the loop is not in *)
(* it.                                                                     *)
(***************************************************************************)
\* Line 224 and line 245 without lower().
current_ratings_dict_CaseSensitive(clubRatings, user) ==
    LET hits == {i \in 1..Len(clubRatings) : clubRatings[i].user = user}
    IN  IF hits = {} THEN 0 ELSE CHOOSE i \in hits : \A j \in hits : j <= i

current_ratings_dict(clubRatings, user) ==
    LET hits == {i \in 1..Len(clubRatings) : Lower(clubRatings[i].user) = Lower(user)}
    IN  IF hits = {} THEN 0 ELSE CHOOSE i \in hits : \A j \in hits : j <= i

\* Lines 245-254: the member's entry i (0: none) overwritten when the score
\* or the blurb differs, a new entry appended when the member has none.
\* Lines 247-250 without line 250: the blurb of a stored entry is kept.
StoreRating_ScoreOnly(ratings, i, user, new_score, new_blurb) ==
    IF i # 0
    THEN IF ScoreNe(ratings[i].score, new_score) \/ DictGet(ratings[i].blurb) # new_blurb
         THEN [ratings EXCEPT ![i].score = new_score]
         ELSE ratings
    ELSE Append(ratings, RatingEntry(user, new_score, new_blurb))

StoreRating(ratings, i, user, new_score, new_blurb) ==
    IF i # 0
    THEN IF ScoreNe(ratings[i].score, new_score) \/ DictGet(ratings[i].blurb) # new_blurb
         THEN [ratings EXCEPT ![i].score = new_score, ![i].blurb = new_blurb]
         ELSE ratings
    ELSE Append(ratings, RatingEntry(user, new_score, new_blurb))

\* Lines 227-254 without line 235: a member whose cells are both empty is
\* stored as any other.
MergeUser_NoSkip(ratings, current, row, cols, user) ==
    IF ~HasRatingCol(cols, user) /\ ~HasBlurbCol(cols, user) THEN ratings
    ELSE StoreRating(ratings, current_ratings_dict(current, user), user,
                     NormalizeScore(RowGetRating(row, cols, user)),
                     NormalizeBlurb(RowGetBlurb(row, cols, user)))

\* One turn of the loop over users, lines 227-254.
MergeUser(ratings, current, row, cols, user) ==
    IF ~HasRatingCol(cols, user) /\ ~HasBlurbCol(cols, user) THEN ratings
    ELSE IF /\ pd_isna_rating(RowGetRating(row, cols, user))
            /\ pd_isna(RowGetBlurb(row, cols, user))
         THEN ratings
    ELSE StoreRating(ratings, current_ratings_dict(current, user), user,
                     NormalizeScore(RowGetRating(row, cols, user)),
                     NormalizeBlurb(RowGetBlurb(row, cols, user)))

RECURSIVE MergeUsers(_, _, _, _, _)
MergeUsers(ratings, current, row, cols, k) ==
    IF k > Len(users) THEN ratings
    ELSE MergeUsers(MergeUser(ratings, current, row, cols, users[k]), current, row, cols, k + 1)

MergeRatings(clubRatings, row, cols) == MergeUsers(clubRatings, clubRatings, row, cols, 1)

\* Lines 305-306 without line 306: a whole number stays a float.
IntIfWhole_Never(f) == f

\* Line 306: int(rating_val_typed) when rating_val_typed.is_integer().
IntIfWhole(f) == IF is_integer(f) THEN IntScore(f.ip) ELSE f

\* Lines 304-308: float(rating) for a cell that is not missing, made an int
\* when whole; the cell itself on ValueError or TypeError.
NewTyped(rating, f) == IF ~f.ok THEN StrScore(rating) ELSE IntIfWhole(f.val)

rating_val_typed(rating) ==
    IF pd_isna_rating(rating) THEN NullScore ELSE NewTyped(rating, PyFloat(rating))

\* Lines 300-311: the ratings of a new film, built from the row alone.
RECURSIVE NewRatings(_, _, _)
NewRatings(row, cols, k) ==
    IF k > Len(users) THEN <<>>
    ELSE IF ~pd_isna_rating(RowGetRating(row, cols, users[k]))
                \/ ~pd_isna(RowGetBlurb(row, cols, users[k]))
         THEN <<RatingEntry(users[k], rating_val_typed(RowGetRating(row, cols, users[k])),
                            NormalizeBlurb(RowGetBlurb(row, cols, users[k])))>>
                  \o NewRatings(row, cols, k + 1)
         ELSE NewRatings(row, cols, k + 1)

(***************************************************************************)
(* Lines 204-221: the club block of an existing film updated from a row.   *)
(***************************************************************************)
EnsureClubInfo(film) ==
    IF film.movieClubInfo.present THEN film.movieClubInfo ELSE EmptyClubInfo

\* Lines 208-209 without the test of the cell: an empty cell is stored too.
SetWatchDate_Always(club, watch_date_sheet) ==
    IF DictGet(club.watchDate) # watch_date_sheet
    THEN [club EXCEPT !.watchDate = watch_date_sheet] ELSE club

\* Lines 208-209.
SetWatchDate(club, watch_date_sheet) ==
    IF Truthy(watch_date_sheet) /\ DictGet(club.watchDate) # watch_date_sheet
    THEN [club EXCEPT !.watchDate = watch_date_sheet] ELSE club

\* Lines 211-212.
SetSelector(club, selector_sheet) ==
    IF Truthy(selector_sheet) /\ DictGet(club.selector) # selector_sheet
    THEN [club EXCEPT !.selector = selector_sheet] ELSE club

\* Lines 214-218 with the test lines 208 and 211 make: an empty cell is not
\* stored.
SetTrophyNotes_KeepOnEmpty(club, has_column, trophy_notes_sheet) ==
    IF has_column /\ Truthy(trophy_notes_sheet)
            /\ DictGet(club.trophyNotes) # trophy_notes_sheet
    THEN [club EXCEPT !.trophyNotes = trophy_notes_sheet] ELSE club

\* Lines 214-218.
SetTrophyNotes(club, has_column, trophy_notes_sheet) ==
    IF has_column /\ DictGet(club.trophyNotes) # NormalizeBlurb(trophy_notes_sheet)
    THEN [club EXCEPT !.trophyNotes = NormalizeBlurb(trophy_notes_sheet)] ELSE club

\* Lines 220-221.
\* Lines 220-221 without the test of line 220: the list is made anew.
EnsureClubRatings_Reset(club) ==
    [club EXCEPT !.hasClubRatings = TRUE, !.clubRatings = <<>>]

EnsureClubRatings(club) ==
    IF club.hasClubRatings THEN club
    ELSE [club EXCEPT !.hasClubRatings = TRUE, !.clubRatings = <<>>]

SetClubRatings(club, row, cols) ==
    [club EXCEPT !.clubRatings = MergeRatings(club.clubRatings, row, cols)]

UpdateClubInfo(film, row, cols) ==
    [film EXCEPT !.movieClubInfo =
        SetClubRatings(
            EnsureClubRatings(
                SetTrophyNotes(
                    SetSelector(
                        SetWatchDate(EnsureClubInfo(film), RowGet(row, cols, "watch_date")),
                        RowGet(row, cols, "selected_by")),
                    HasCol(cols, "trophy_notes"), RowGet(row, cols, "trophy_notes"))),
            row, cols)]

\* Lines 295-311: the club block of a new film.
NewClubInfo(row, cols) ==
    [present |-> TRUE,
     selector |-> RowGet(row, cols, "selected_by"),
     watchDate |-> RowGet(row, cols, "watch_date"),
     trophyNotes |-> RowGet(row, cols, "trophy_notes"),
     trophyInfo |-> None,
     hasClubRatings |-> TRUE,
     clubRatings |-> NewRatings(row, cols, 1)]

(***************************************************************************)
(* The providers.  An answer is what the HTTP exchange gives; the          *)
(* functions turn it into data, None, or an exception nothing catches      *)
(* ("raise").                                                              *)
(***************************************************************************)
PyTrue == "True"
PyFalse == "False"

NoFilm == Film(Absent, Absent, Absent, NoCrew, NoClubInfo)

OmdbAnswer(kind, imdbID) == [kind |-> kind, imdbID |-> imdbID]

\* Lines 35-56.  conn_error: requests.get raises; http_error:
\* raise_for_status raises; not_json: response.json() raises; all three are
\* caught.  not_object: the body is JSON but no object (null, a list, a
\* string), and data.get (line 46) raises AttributeError, which no except
\* clause of the function or of its callers catches.  response_false: the
\* body's "Response" is not "True".  ok: the film's metadata, its keys in
\* camelCase; the imdbID is the one the body carries.
get_omdb_film_details(imdb_id, api_key, answer) ==
    IF ~Truthy(api_key) THEN [outcome |-> "None", film |-> NoFilm]
    ELSE CASE answer.kind \in {"conn_error", "http_error", "not_json"} ->
                [outcome |-> "None", film |-> NoFilm]
           [] answer.kind = "not_object" ->
                [outcome |-> "raise", film |-> NoFilm]
           [] answer.kind = "response_false" ->
                [outcome |-> "None", film |-> NoFilm]
           [] answer.kind = "ok" ->
                [outcome |-> "data",
                 film |-> Film(answer.imdbID, "Title", Absent, NoCrew, NoClubInfo)]

\* target_jobs, lines 113-119.
target_jobs ==
    [job \in {"Director of Photography", "Editor", "Production Design",
              "Original Music Composer", "Costume Design"} |->
        CASE job = "Director of Photography" -> "cinematographer"
          [] job = "Editor" -> "editor"
          [] job = "Production Design" -> "productionDesigner"
          [] job = "Original Music Composer" -> "musicComposer"
          [] job = "Costume Design" -> "costumeDesigner"]

\* The names the model's credits use, in the order sorted() gives them.
NameOrder == <<"Deakins", "Lubezki">>

\* ", ".join(sorted(list(set(names)))), line 133.
JoinSorted(names) == SelectSeq(NameOrder, LAMBDA n : n \in names)

\* Lines 111-133: the crew listing turned into the fields found.  A member
\* without a job or a name is passed over.
ExtractCrew(crew) ==
    [f \in EXPECTED_TMDB_CREW_FIELDS |->
        JoinSorted({crew[i].name : i \in
            {j \in 1..Len(crew) :
                /\ Truthy(crew[j].job) /\ Truthy(crew[j].name)
                /\ crew[j].job \in DOMAIN target_jobs
                /\ target_jobs[crew[j].job] = f}})]

TmdbAnswer(find, id, credits, crew) ==
    [find |-> find, id |-> id, credits |-> credits, crew |-> crew]

\* Lines 66-141.  find: the answer to /find (movie, tv, none: neither list
\* has a result; conn_error, http_error, not_json: caught; not_object: the
\* body is JSON but no object, find_data.get raises AttributeError;
\* no_id: the first result has no "id", KeyError).  id: the id found,
\* 0 being an id line 101 takes for none.  credits: the answer to /credits
\* (crew: a listing; no_crew: an object without "crew"; conn_error,
\* http_error, not_json: caught; bad_member: a listing whose member is no
\* object, crew_member.get raises AttributeError).
get_tmdb_film_details(imdb_id, tmdb_bearer_token, answer) ==
    IF ~Truthy(tmdb_bearer_token) THEN [outcome |-> "None", crew |-> NoCrew]
    ELSE IF answer.find \in {"conn_error", "http_error", "not_json", "none"}
         THEN [outcome |-> "None", crew |-> NoCrew]
    ELSE IF answer.find \in {"not_object", "no_id"}
         THEN [outcome |-> "raise", crew |-> NoCrew]
    ELSE IF answer.id = 0
         THEN [outcome |-> "None", crew |-> NoCrew]
    ELSE CASE answer.credits \in {"conn_error", "http_error", "not_json"} ->
                [outcome |-> "None", crew |-> NoCrew]
           [] answer.credits = "bad_member" ->
                [outcome |-> "raise", crew |-> NoCrew]
           [] answer.credits = "no_crew" ->
                [outcome |-> "data", crew |-> NoCrew]
           [] answer.credits = "crew" ->
                [outcome |-> "data", crew |-> ExtractCrew(answer.crew)]

\* "if tmdb_crew_data:" (lines 261, 285): None and the empty dict are false.
HasCrewData(r) == r.outcome = "data" /\ r.crew # NoCrew

\* Lines 262-263 and 286-287: every field found is stored in the film.
StoreCrew(film, crew) ==
    [film EXCEPT !.crew = [f \in EXPECTED_TMDB_CREW_FIELDS |->
                              IF crew[f] # <<>> THEN crew[f] ELSE film.crew[f]]]

(***************************************************************************)
(* One row of the loop of update_json_from_sheet, lines 186-317, as a      *)
(* function of the loop's variables, the row and the providers' answers.   *)
(***************************************************************************)
\* Line 177: the index of the films by imdbID, built once per pass; of two
\* films with one imdbID the later one is indexed.
BuildFilmsDict(films) ==
    [id \in {films[i].imdbID : i \in {j \in 1..Len(films) : films[j].imdbID # Absent}} |->
        CHOOSE i \in 1..Len(films) :
            /\ films[i].imdbID = id
            /\ \A j \in 1..Len(films) : films[j].imdbID = id => j <= i]

\* Line 188 without the test of the empty text.
SkipsRow_NaOnly(imdb_id_sheet, processed) ==
    pd_isna(imdb_id_sheet) \/ imdb_id_sheet \in processed

\* Line 188 without the test of the processed identifiers.
SkipsRow_NoDuplicateTest(imdb_id_sheet, processed) ==
    ~Truthy(imdb_id_sheet) \/ pd_isna(imdb_id_sheet)

\* Line 188: the rows the loop passes over.
SkipsRow(imdb_id_sheet, processed) ==
    ~Truthy(imdb_id_sheet) \/ pd_isna(imdb_id_sheet) \/ imdb_id_sheet \in processed

\* Lines 257-258: an existing film is enriched when a token is set and its
\* flag is false or missing.
NeedsTmdbFetch(film, tmdb_bearer_token) ==
    Truthy(tmdb_bearer_token) /\ film.tmdbCrewDataFetched # PyTrue

\* Lines 260-267 and 284-291: the film after an enrichment attempt.
SetFlag(film, flag) == [film EXCEPT !.tmdbCrewDataFetched = flag]

\* Lines 260-267 with the flag set by what the fetch found.
AfterTmdbFetch_FlagOnData(film, r) ==
    SetFlag(IF HasCrewData(r) THEN StoreCrew(film, r.crew) ELSE film,
            IF HasCrewData(r) THEN PyTrue ELSE PyFalse)

AfterTmdbFetch(film, r) ==
    SetFlag(IF HasCrewData(r) THEN StoreCrew(film, r.crew) ELSE film, PyTrue)

SetClubInfo(film, club) == [film EXCEPT !.movieClubInfo = club]

\* Lines 280-311 with the flag of a new film set true without a token too.
NewFilmEntry_FlagTrue(omdb_film, row, cols, tmdb_bearer_token, r) ==
    SetClubInfo(IF Truthy(tmdb_bearer_token)
                THEN AfterTmdbFetch(SetFlag(omdb_film, PyFalse), r)
                ELSE SetFlag(omdb_film, PyTrue),
                NewClubInfo(row, cols))

\* Lines 280-311: the entry of a new film, from the primary provider's
\* data, the enrichment result r and the row.
NewFilmEntry(omdb_film, row, cols, tmdb_bearer_token, r) ==
    SetClubInfo(IF Truthy(tmdb_bearer_token)
                THEN AfterTmdbFetch(SetFlag(omdb_film, PyFalse), r)
                ELSE SetFlag(omdb_film, PyFalse),
                NewClubInfo(row, cols))

RowResult(st, path, raised, omdb_called, tmdb_called, before, after) ==
    [st |-> st, path |-> path, raised |-> raised, omdb_called |-> omdb_called,
     tmdb_called |-> tmdb_called, before |-> before, after |-> after]

\* Lines 256-273: the enrichment of an existing film and the comparison of
\* its state before (movie0) and after, both serialized with sorted keys.
EnrichExisting(st, idx, movie0, movie1, fetch, r) ==
    IF fetch /\ r.outcome = "raise"
    THEN RowResult([st EXCEPT !.films_data[idx] = movie1],
                   "existing", TRUE, FALSE, TRUE, movie0, movie1)
    ELSE IF fetch
    THEN RowResult([st EXCEPT !.films_data[idx] = AfterTmdbFetch(movie1, r),
                              !.changes_made = @ \/ movie0 # AfterTmdbFetch(movie1, r)],
                   "existing", FALSE, FALSE, TRUE, movie0, AfterTmdbFetch(movie1, r))
    ELSE RowResult([st EXCEPT !.films_data[idx] = movie1,
                              !.changes_made = @ \/ movie0 # movie1],
                   "existing", FALSE, FALSE, FALSE, movie0, movie1)

UpdateExisting(st, idx, row, cols, movie1, tmdb_bearer_token, r) ==
    EnrichExisting(st, idx, st.films_data[idx], movie1,
                   NeedsTmdbFetch(movie1, tmdb_bearer_token), r)

\* Lines 200-273: the row of a film the catalog has.
ExistingRow(st, imdb_id_sheet, row, cols, tmdb_bearer_token, tmdb_answer) ==
    UpdateExisting(st, st.films_dict[imdb_id_sheet], row, cols,
                   UpdateClubInfo(st.films_data[st.films_dict[imdb_id_sheet]], row, cols),
                   tmdb_bearer_token,
                   get_tmdb_film_details(imdb_id_sheet, tmdb_bearer_token, tmdb_answer))

\* Lines 313-314 without line 314: a new film does not mark the run changed.
AppendNew_Unmarked(st, new_film_entry, fetch) ==
    RowResult([st EXCEPT !.new_films_to_append = Append(@, new_film_entry)],
              "new", FALSE, TRUE, fetch, NoFilm, new_film_entry)

\* Lines 279-317: what becomes of the primary provider's result.
AppendNew(st, new_film_entry, fetch) ==
    RowResult([st EXCEPT !.new_films_to_append = Append(@, new_film_entry),
                         !.changes_made = TRUE],
              "new", FALSE, TRUE, fetch, NoFilm, new_film_entry)

CreateNew(st, row, cols, new_film_data_omdb, tmdb_bearer_token, r) ==
    CASE new_film_data_omdb.outcome = "raise" ->
            RowResult(st, "new_failed", TRUE, TRUE, FALSE, NoFilm, NoFilm)
      [] new_film_data_omdb.outcome = "None" ->
            RowResult(st, "new_failed", FALSE, TRUE, FALSE, NoFilm, NoFilm)
      [] new_film_data_omdb.outcome = "data"
            /\ Truthy(tmdb_bearer_token) /\ r.outcome = "raise" ->
            RowResult(st, "new", TRUE, TRUE, TRUE, NoFilm, NoFilm)
      [] OTHER ->
            AppendNew(st, NewFilmEntry(new_film_data_omdb.film, row, cols,
                                       tmdb_bearer_token, r),
                      Truthy(tmdb_bearer_token))

\* Lines 275-317: the row of a film the catalog does not have.
NewRow(st, imdb_id_sheet, row, cols, omdb_api_key, tmdb_bearer_token, omdb_answer, tmdb_answer) ==
    CreateNew(st, row, cols,
              get_omdb_film_details(imdb_id_sheet, omdb_api_key, omdb_answer),
              tmdb_bearer_token,
              get_tmdb_film_details(imdb_id_sheet, tmdb_bearer_token, tmdb_answer))

\* Line 193.
MarkProcessed(st, imdb_id_sheet) ==
    [st EXCEPT !.processed_sheet_ids = @ \cup {imdb_id_sheet}]

\* Lines 187-317.
ProcessId(st, imdb_id_sheet, row, cols, omdb_api_key, tmdb_bearer_token, omdb_answer, tmdb_answer) ==
    IF SkipsRow(imdb_id_sheet, st.processed_sheet_ids)
    THEN RowResult(st,
                   IF imdb_id_sheet \in st.processed_sheet_ids THEN "duplicate" ELSE "blank",
                   FALSE, FALSE, FALSE, NoFilm, NoFilm)
    ELSE IF imdb_id_sheet \in DOMAIN st.films_dict
         THEN ExistingRow(MarkProcessed(st, imdb_id_sheet), imdb_id_sheet, row, cols,
                          tmdb_bearer_token, tmdb_answer)
         ELSE NewRow(MarkProcessed(st, imdb_id_sheet), imdb_id_sheet, row, cols,
                     omdb_api_key, tmdb_bearer_token, omdb_answer, tmdb_answer)

ProcessRow(st, row, cols, omdb_api_key, tmdb_bearer_token, omdb_answer, tmdb_answer) ==
    ProcessId(st, RowGet(row, cols, "imdb_id"), row, cols, omdb_api_key, tmdb_bearer_token,
              omdb_answer, tmdb_answer)

\* The answer a provider gave for an identifier, none if it was not asked.
OmdbAnswerFor(answers, id) == IF id \in DOMAIN answers THEN answers[id] ELSE OmdbAnswer("conn_error", Absent)

TmdbAnswerFor(answers, id) ==
    IF id \in DOMAIN answers THEN answers[id] ELSE TmdbAnswer("none", 0, "no_crew", <<>>)

\* Line 321 with the new films put before the catalog's.
ExtendCatalog_Front(films, new_films) == new_films \o films

\* Line 321.
\* Line 321 with the list assigned, not extended.
ExtendCatalog_Replace(films, new_films) == IF new_films # <<>> THEN new_films ELSE films

ExtendCatalog(films, new_films) == films \o new_films

\* Lines 186-321: the loop over rows as a whole, from the loaded catalog st,
\* with the providers answering as in answers; raised when an exception ends
\* it, else the catalog in memory after line 321.
RECURSIVE RunRows(_, _, _, _, _, _, _)
RunRest(r, rest, cols, omdb_api_key, tmdb_bearer_token, omdb, tmdb) ==
    IF r.raised THEN [raised |-> TRUE, films_data |-> r.st.films_data,
                      changes_made |-> r.st.changes_made]
    ELSE RunRows(r.st, rest, cols, omdb_api_key, tmdb_bearer_token, omdb, tmdb)

RunRows(st, rows, cols, omdb_api_key, tmdb_bearer_token, omdb, tmdb) ==
    IF rows = <<>>
    THEN [raised |-> FALSE, films_data |-> ExtendCatalog(st.films_data, st.new_films_to_append),
          changes_made |-> st.changes_made]
    ELSE RunRest(ProcessRow(st, Head(rows), cols, omdb_api_key, tmdb_bearer_token,
                            OmdbAnswerFor(omdb, RowGet(Head(rows), cols, "imdb_id")),
                            TmdbAnswerFor(tmdb, RowGet(Head(rows), cols, "imdb_id"))),
                 Tail(rows), cols, omdb_api_key, tmdb_bearer_token, omdb, tmdb)

\* Lines 165-184: the loop's variables after the catalog is loaded.  A
\* missing or malformed file is an empty catalog.
LoadFilms(films) ==
    [films_data |-> films, films_dict |-> BuildFilmsDict(films),
     processed_sheet_ids |-> {}, new_films_to_append |-> <<>>,
     changes_made |-> FALSE]

\* Lines 165-173: a file that is missing (FileNotFoundError) or no JSON
\* (JSONDecodeError) is an empty list.
LoadCatalog(file) == LoadFilms(IF file.state = "ok" THEN file.films ELSE <<>>)

\* Lines 167 and 177: a file that is JSON but no list (null) is loaded as it
\* is, and the comprehension of line 177 raises TypeError, which nothing
\* catches.
LoadRaises(file) == file.state = "not_list"

\* Lines 370-373: dropna leaves no row, main returns True before the catalog
\* is opened.
NothingToProcess(rows) == \A i \in 1..Len(rows) : pd_isna(rows[i].imdb_id)


(***************************************************************************)
(* The state.  json_file, sheet, the two credentials and the providers'    *)
(* answers are the environment; pc .. changes_made are where a pass is and *)
(* the variables of update_json_from_sheet; result is what the last pass   *)
(* returned.  The rest records what happened, for the properties:          *)
(* loaded (the catalog as the pass read it), last (the last step),         *)
(* tmdb_calls (the secondary lookups made so far for the film at each      *)
(* place of the catalog file), new_calls (the same for the films in        *)
(* new_films_to_append), prev (the file and result before this pass) and   *)
(* unchanged (this pass runs on the inputs of the one before).             *)
(***************************************************************************)
VARIABLES json_file, sheet, omdb_api_key, tmdb_bearer_token,
          omdb_answers, tmdb_answers,
          pc, row_idx, films_data, films_dict, processed_sheet_ids,
          new_films_to_append, changes_made, result, passes,
          loaded, last, tmdb_calls, new_calls, prev, unchanged

vars == <<json_file, sheet, omdb_api_key, tmdb_bearer_token,
          omdb_answers, tmdb_answers,
          pc, row_idx, films_data, films_dict, processed_sheet_ids,
          new_films_to_append, changes_made, result, passes,
          loaded, last, tmdb_calls, new_calls, prev, unchanged>>

File(state, films) == [state |-> state, films |-> films]

NoRow ==
    [imdb_id |-> None, watch_date |-> None, selected_by |-> None, trophy_notes |-> None,
     rating |-> [u \in {} |-> NaN], blurb |-> [u \in {} |-> None]]

Step(step, row, r, write) ==
    [step |-> step, row |-> row, path |-> r.path, raised |-> r.raised,
     omdb_called |-> r.omdb_called, tmdb_called |-> r.tmdb_called,
     before |-> r.before, after |-> r.after, write |-> write]

NoResult == [path |-> "none", raised |-> FALSE, omdb_called |-> FALSE,
             tmdb_called |-> FALSE, before |-> NoFilm, after |-> NoFilm]

\* The loop's variables as one record, as ProcessRow takes them.
Locals ==
    [films_data |-> films_data, films_dict |-> films_dict,
     processed_sheet_ids |-> processed_sheet_ids,
     new_films_to_append |-> new_films_to_append, changes_made |-> changes_made]

InitWith(files, sheets) ==
    /\ json_file \in files
    /\ sheet \in sheets
    /\ omdb_api_key = None
    /\ tmdb_bearer_token = None
    /\ omdb_answers = <<>>
    /\ tmdb_answers = <<>>
    /\ pc = "idle"
    /\ row_idx = 1
    /\ films_data = <<>>
    /\ films_dict = <<>>
    /\ processed_sheet_ids = {}
    /\ new_films_to_append = <<>>
    /\ changes_made = FALSE
    /\ result = "none"
    /\ passes = 0
    /\ loaded = <<>>
    /\ last = Step("none", NoRow, NoResult, "none")
    /\ tmdb_calls = [i \in 1..Len(json_file.films) |-> 0]
    /\ new_calls = <<>>
    /\ prev = [json_file |-> json_file, result |-> "none", sheet |-> sheet, omdb_failed |-> {}]
    /\ unchanged = FALSE

Loaded(st) ==
    /\ films_data' = st.films_data
    /\ films_dict' = st.films_dict
    /\ processed_sheet_ids' = st.processed_sheet_ids
    /\ new_films_to_append' = st.new_films_to_append
    /\ changes_made' = st.changes_made
    /\ loaded' = st.films_data

\* Lines 277-279 and 315-317 in the run that has just ended, if it reached
\* the loop: the identifiers the catalog did not have for whose rows
\* get_omdb_film_details gave no film.
OmdbFailed ==
    IF last.step \in {"row", "finish"}
    THEN {id \in processed_sheet_ids \ DOMAIN films_dict :
            get_omdb_film_details(id, omdb_api_key,
                                  OmdbAnswerFor(omdb_answers, id)).outcome # "data"}
    ELSE {}

\* main() calls update_json_from_sheet (line 375): the catalog is loaded,
\* lines 165-184.  The credentials are those of the environment; a pass after
\* the first may run on the inputs of the pass before it (same credentials,
\* same answers of the providers) or on new ones.
StartPass(keys) ==
    /\ pc = "idle"
    /\ passes < MaxPasses
    /\ \E same \in (IF passes = 0 \/ sheet # prev.sheet THEN {FALSE} ELSE BOOLEAN) :
         /\ unchanged' = same
         /\ IF same
            THEN UNCHANGED <<omdb_api_key, tmdb_bearer_token, omdb_answers, tmdb_answers>>
            ELSE /\ \E k \in keys : omdb_api_key' = k.omdb /\ tmdb_bearer_token' = k.tmdb
                 /\ omdb_answers' = <<>>
                 /\ tmdb_answers' = <<>>
    /\ prev' = [json_file |-> json_file, result |-> result, sheet |-> sheet,
                omdb_failed |-> OmdbFailed]
    /\ new_calls' = <<>>
    /\ row_idx' = 1
    /\ IF NothingToProcess(sheet.rows)
       THEN /\ pc' = "idle"
            /\ result' = "True"
            /\ passes' = passes + 1
            /\ last' = Step("nothing", NoRow, NoResult, "none")
            /\ UNCHANGED <<films_data, films_dict, processed_sheet_ids,
                           new_films_to_append, changes_made, loaded, tmdb_calls>>
       ELSE IF LoadRaises(json_file)
       THEN /\ pc' = "idle"
            /\ result' = "exception"
            /\ passes' = passes + 1
            /\ last' = Step("load", NoRow, NoResult, "none")
            /\ UNCHANGED <<films_data, films_dict, processed_sheet_ids,
                           new_films_to_append, changes_made, loaded, tmdb_calls>>
       ELSE /\ Loaded(LoadCatalog(json_file))
            /\ tmdb_calls' = IF json_file.state = "ok" THEN tmdb_calls ELSE <<>>
            /\ pc' = "rows"
            /\ last' = Step("start", NoRow, NoResult, "none")
            /\ UNCHANGED <<result, passes>>
    /\ UNCHANGED <<json_file, sheet>>

\* main, lines 350-368: SHEET_ID or JSON_PATH is not set, or the sheet cannot
\* be fetched or has no imdb_id column; main returns False.
SheetUnavailable ==
    /\ pc = "idle"
    /\ passes < MaxPasses
    /\ result' = "False"
    /\ passes' = passes + 1
    /\ prev' = [json_file |-> json_file, result |-> result, sheet |-> sheet,
                omdb_failed |-> {}]
    /\ unchanged' = FALSE
    /\ last' = Step("no_sheet", NoRow, NoResult, "none")
    /\ UNCHANGED <<json_file, sheet, omdb_api_key, tmdb_bearer_token, omdb_answers,
                   tmdb_answers, pc, row_idx, films_data, films_dict, processed_sheet_ids,
                   new_films_to_append, changes_made, loaded, tmdb_calls, new_calls>>

\* Between two runs the sheet is edited.
EditSheet(sheets) ==
    /\ pc = "idle"
    /\ passes >= 1
    /\ passes < MaxPasses
    /\ sheet = prev.sheet
    /\ sheet' \in sheets \ {sheet}
    /\ UNCHANGED <<json_file, omdb_api_key, tmdb_bearer_token, omdb_answers, tmdb_answers,
                   pc, row_idx, films_data, films_dict, processed_sheet_ids,
                   new_films_to_append, changes_made, result, passes, loaded, last,
                   tmdb_calls, new_calls, prev, unchanged>>

NoOmdbAnswer == OmdbAnswer("conn_error", Absent)
NoTmdbAnswer == TmdbAnswer("none", 0, "no_crew", <<>>)

\* The state after a row whose processing gave r.
AfterRow(row, id, oa, ta, r) ==
    /\ films_data' = r.st.films_data
    /\ processed_sheet_ids' = r.st.processed_sheet_ids
    /\ new_films_to_append' = r.st.new_films_to_append
    /\ changes_made' = r.st.changes_made
    /\ omdb_answers' = IF r.omdb_called /\ Truthy(omdb_api_key)
                       THEN (id :> oa) @@ omdb_answers ELSE omdb_answers
    /\ tmdb_answers' = IF r.tmdb_called THEN (id :> ta) @@ tmdb_answers ELSE tmdb_answers
    /\ tmdb_calls' = IF r.tmdb_called /\ r.path = "existing"
                     THEN [tmdb_calls EXCEPT ![films_dict[id]] = @ + 1]
                     ELSE tmdb_calls
    /\ new_calls' = IF r.path = "new" /\ ~r.raised
                    THEN Append(new_calls, IF r.tmdb_called THEN 1 ELSE 0)
                    ELSE new_calls
    /\ last' = Step("row", row, r, "none")
    /\ IF r.raised
       THEN /\ pc' = "idle"
            /\ result' = "exception"
            /\ passes' = passes + 1
            /\ row_idx' = row_idx
       ELSE /\ pc' = "rows"
            /\ row_idx' = row_idx + 1
            /\ UNCHANGED <<result, passes>>

\* The answers a request may get: the one given before, or any.
OmdbMayAnswer(id, asked, choices) ==
    IF ~asked \/ ~Truthy(omdb_api_key) THEN {NoOmdbAnswer}
    ELSE IF id \in DOMAIN omdb_answers THEN {omdb_answers[id]}
    ELSE choices

TmdbMayAnswer(id, asked, choices) ==
    IF ~asked THEN {NoTmdbAnswer}
    ELSE IF id \in DOMAIN tmdb_answers THEN {tmdb_answers[id]}
    ELSE choices

RowWithOmdb(row, id, oa, tmdb_choices) ==
    \E ta \in TmdbMayAnswer(id,
                ProcessRow(Locals, row, sheet.cols, omdb_api_key, tmdb_bearer_token,
                           oa, NoTmdbAnswer).tmdb_called,
                tmdb_choices) :
        AfterRow(row, id, oa, ta,
                 ProcessRow(Locals, row, sheet.cols, omdb_api_key, tmdb_bearer_token, oa, ta))

RowWithId(row, id, omdb_choices, tmdb_choices) ==
    \E oa \in OmdbMayAnswer(id,
                ProcessRow(Locals, row, sheet.cols, omdb_api_key, tmdb_bearer_token,
                           NoOmdbAnswer, NoTmdbAnswer).omdb_called,
                omdb_choices) :
        RowWithOmdb(row, id, oa, tmdb_choices)

\* One turn of the loop over the rows, lines 186-317.  The providers answer
\* a request as they answered it before in this pass or, on unchanged
\* inputs, in the pass before; an exception ends the run.
RowStep(omdb_choices, tmdb_choices) ==
    /\ pc = "rows"
    /\ row_idx <= Len(sheet.rows)
    /\ RowWithId(sheet.rows[row_idx], RowGet(sheet.rows[row_idx], sheet.cols, "imdb_id"),
                 omdb_choices, tmdb_choices)
    /\ UNCHANGED <<json_file, sheet, omdb_api_key, tmdb_bearer_token, films_dict,
                   loaded, prev, unchanged>>

\* Lines 319-347: the new films are appended and, if anything changed, the
\* catalog is written.  The write succeeds (ok), fails before the file is
\* opened for writing (io_error: the file is as it was), or fails while
\* json.dump writes (partial: the file holds the start of the catalog and is
\* no JSON).
Finish(writes) ==
    /\ pc = "rows"
    /\ row_idx > Len(sheet.rows)
    /\ films_data' = ExtendCatalog(films_data, new_films_to_append)
    /\ \E w \in (IF changes_made THEN writes ELSE {"none"}) :
         /\ json_file' = CASE w = "ok" -> File("ok", films_data')
                           [] w = "partial" -> File("malformed", <<>>)
                           [] OTHER -> json_file
         /\ tmdb_calls' = CASE w = "ok" -> tmdb_calls \o new_calls
                            [] w = "partial" -> <<>>
                            [] OTHER -> tmdb_calls
         /\ result' = IF w \in {"ok", "none"} THEN "True" ELSE "False"
         /\ last' = Step("finish", NoRow, NoResult, w)
    /\ pc' = "idle"
    /\ passes' = passes + 1
    /\ UNCHANGED <<sheet, omdb_api_key, tmdb_bearer_token, omdb_answers, tmdb_answers,
                   row_idx, films_dict, processed_sheet_ids, new_films_to_append,
                   changes_made, loaded, new_calls, prev, unchanged>>

(***************************************************************************)
(* The environments the model is checked in.                               *)
(***************************************************************************)
Ids == {"tt1", "tt2"}

Keys == [omdb : {None, "key"}, tmdb : {None, "token"}]

Writes == {"ok", "io_error", "partial"}

\* Answers of the primary provider: a failure, a body that is no object, or
\* a film, whose imdbID is the provider's to choose.
OmdbChoices ==
    {OmdbAnswer("http_error", Absent), OmdbAnswer("not_object", Absent)}
        \cup {OmdbAnswer("ok", id) : id \in Ids}

AllOmdbChoices ==
    {OmdbAnswer(k, Absent) :
        k \in {"conn_error", "http_error", "not_json", "not_object", "response_false"}}
        \cup {OmdbAnswer("ok", id) : id \in Ids}

Member(job, name) == [job |-> job, name |-> name]

Credits ==
    <<Member("Director of Photography", "Lubezki"), Member("Editor", "Deakins"),
      Member("Director of Photography", "Deakins"), Member("Director", "Lubezki"),
      Member("Director of Photography", "Lubezki"), Member(None, "Deakins")>>

\* Answers of the secondary provider.
TmdbChoices ==
    {TmdbAnswer("none", 0, "no_crew", <<>>),
     TmdbAnswer("not_object", 0, "no_crew", <<>>),
     TmdbAnswer("movie", 1, "no_crew", <<>>),
     TmdbAnswer("tv", 1, "crew", Credits)}

AllTmdbChoices ==
    {TmdbAnswer(f, 0, "no_crew", <<>>) :
        f \in {"conn_error", "http_error", "not_json", "none", "not_object", "no_id", "movie"}}
        \cup {TmdbAnswer("movie", 1, c, <<>>) :
                c \in {"conn_error", "http_error", "not_json", "bad_member", "no_crew", "crew"}}
        \cup {TmdbAnswer("tv", 1, "crew", Credits)}

\* Films a catalog file may hold: one from before the flag and the club
\* block existed, one not yet enriched, one enriched.
LegacyFilm(id) == Film(id, "Title", Absent, NoCrew, NoClubInfo)

RatedClubInfo ==
    [present |-> TRUE, selector |-> "gabe", watchDate |-> "2023-10-31", trophyNotes |-> "cult",
     trophyInfo |-> None, hasClubRatings |-> TRUE,
     clubRatings |-> <<RatingEntry("Andy", IntScore(7), "fine"),
                       RatingEntry("pat", IntScore(3), None)>>]

UnenrichedFilm(id) == Film(id, "Title", PyFalse, NoCrew, RatedClubInfo)

EnrichedFilm(id) ==
    Film(id, "Title", PyTrue,
         [NoCrew EXCEPT !["cinematographer"] = <<"Deakins">>], RatedClubInfo)

\* The columns and cells of the sheets of the passes.
PassCols ==
    [plain |-> {"imdb_id", "watch_date", "selected_by", "trophy_notes"},
     rating |-> {"andy", "gabe"}, blurb |-> {"andy"}]

Cells(watch_date, selected_by, trophy_notes, andy_rating, andy_blurb, gabe_rating) ==
    [watch_date |-> watch_date, selected_by |-> selected_by, trophy_notes |-> trophy_notes,
     rating |-> [u \in {"andy", "gabe"} |-> IF u = "andy" THEN andy_rating ELSE gabe_rating],
     blurb |-> [u \in {"andy"} |-> andy_blurb]]

PassCells ==
    {Cells("2024-01-05", "andy", None, <<"8">>, "good", NaN),
     Cells(None, None, "won", NaN, None, <<"7", ".", "5">>)}

Row(imdb_id, cells) ==
    [imdb_id |-> imdb_id, watch_date |-> cells.watch_date, selected_by |-> cells.selected_by,
     trophy_notes |-> cells.trophy_notes, rating |-> cells.rating, blurb |-> cells.blurb]

SeqsUpTo(S, n) == UNION {[1..k -> S] : k \in 0..n}

\* Rows of a blank identifier and of one of whitespace.
BlankRows ==
    {Row(None, Cells("2024-01-05", "andy", None, <<"8">>, "good", NaN)),
     Row("", Cells(None, None, "won", NaN, None, <<"7", ".", "5">>)),
     Row(" ", Cells("2024-01-05", "andy", None, <<"8">>, "good", NaN))}

\* One pass over any sheet of up to MaxRows rows, identifiers blank,
\* whitespace or not, against a catalog file missing or holding one film.
PassRows == BlankRows \cup {Row(id, c) : id \in Ids, c \in PassCells}

PassSheets == {[cols |-> PassCols, rows |-> rows] : rows \in SeqsUpTo(PassRows, MaxRows)}

PassFiles ==
    {File("missing", <<>>), File("malformed", <<>>), File("not_list", <<>>),
     File("ok", <<LegacyFilm("tt1")>>),
     File("ok", <<UnenrichedFilm("tt1")>>), File("ok", <<EnrichedFilm("tt1")>>),
     File("ok", <<LegacyFilm("tt2"), UnenrichedFilm("tt1")>>)}

InitPass == InitWith(PassFiles, PassSheets)

\* One pass over one row for tt1, its cells as the CSV export gives them,
\* against a catalog without tt1 or with it.
ScoreTexts ==
    {<<>>, <<"8">>, <<"7">>, <<"8", ".", "0">>, <<"7", ".", "5">>, <<"n", "/", "a">>, <<"a">>}

MergeRow(watch_date, selected_by, trophy_notes, andy_text, andy_blurb, gabe_text) ==
    [imdb_id |-> "tt1", watch_date |-> watch_date, selected_by |-> selected_by,
     trophy_notes |-> trophy_notes,
     csv |-> [u \in {"andy", "gabe"} |-> IF u = "andy" THEN andy_text ELSE gabe_text],
     rating |-> [u \in {"andy", "gabe"} |->
                    read_csv(IF u = "andy" THEN andy_text ELSE gabe_text)],
     blurb |-> [u \in {"andy"} |-> andy_blurb]]

MergeRows ==
    {MergeRow(w, s, t, a, b, g) :
        w \in {None, "2024-01-05"}, s \in {None, "andy"}, t \in {None, "won"},
        a \in ScoreTexts, b \in {None, "fine", "good"}, g \in {<<>>, <<"7", ".", "5">>}}

MergeCols == {PassCols, [PassCols EXCEPT !.plain = @ \ {"trophy_notes"}]}

MergeSheets == {[cols |-> c, rows |-> <<r>>] : c \in MergeCols, r \in MergeRows}

MergeFiles ==
    {File("missing", <<>>), File("ok", <<LegacyFilm("tt1")>>),
     File("ok", <<UnenrichedFilm("tt1")>>)}

MergeOmdbChoices == {OmdbAnswer("ok", "tt1")}

MergeTmdbChoices == {TmdbAnswer("none", 0, "no_crew", <<>>), TmdbAnswer("tv", 1, "crew", Credits)}

InitMerge == InitWith(MergeFiles, MergeSheets)

NextMerge ==
    \/ passes = 0 /\ StartPass(Keys)
    \/ RowStep(MergeOmdbChoices, MergeTmdbChoices)
    \/ Finish(Writes)

SpecMerge == InitMerge /\ [][NextMerge]_vars

NextPass ==
    \/ passes = 0 /\ StartPass(Keys)
    \/ passes = 0 /\ SheetUnavailable
    \/ RowStep(OmdbChoices, TmdbChoices)
    \/ Finish(Writes)

SpecPass == InitPass /\ [][NextPass]_vars

\* Runs one after the other, the sheet edited between them.
RunsRows ==
    {Row("tt1", c) : c \in PassCells} \cup {Row("tt2", Cells("2024-01-05", "andy", None, <<"8">>, "good", NaN))}

RunsSheets == {[cols |-> PassCols, rows |-> rows] : rows \in SeqsUpTo(RunsRows, MaxRows) \ {<<>>}}

RunsFiles == {File("missing", <<>>), File("ok", <<UnenrichedFilm("tt1")>>)}

RunsKeys == {[omdb |-> "key", tmdb |-> None]}

InitRuns == InitWith(RunsFiles, RunsSheets)

NextRuns ==
    \/ StartPass(RunsKeys)
    \/ EditSheet(RunsSheets)
    \/ RowStep(MergeOmdbChoices \cup {OmdbAnswer("ok", "tt2")}, {TmdbAnswer("none", 0, "no_crew", <<>>)})
    \/ Finish({"ok", "io_error"})

SpecRuns == InitRuns /\ [][NextRuns]_vars

\* Passes one after the other over one sheet.
RunRowsSet == {Row(id, c) : id \in Ids, c \in PassCells}

RunSheets == {[cols |-> PassCols, rows |-> rows] : rows \in SeqsUpTo(RunRowsSet, MaxRows)}

RunFiles == {File("missing", <<>>), File("ok", <<LegacyFilm("tt1")>>)}

Init == InitWith(RunFiles, RunSheets)

Next ==
    \/ StartPass(Keys)
    \/ SheetUnavailable
    \/ RowStep(OmdbChoices, TmdbChoices)
    \/ Finish(Writes)

Spec == Init /\ [][Next]_vars

(***************************************************************************)
(* Properties.                                                             *)
(***************************************************************************)
RowsLeft == pc = "rows" /\ row_idx <= Len(sheet.rows)

ThisRow == sheet.rows[row_idx]

RowDone == last.step = "row"

PassDone == last.step = "finish"

PassWritten == PassDone /\ last.write = "ok"

FlagOf(film) == film.tmdbCrewDataFetched

RatingsOf(film) == film.movieClubInfo.clubRatings

EntriesOf(ratings, user) ==
    SelectSeq(ratings, LAMBDA entry : Lower(entry.user) = Lower(user))

BothCellsEmpty(row, cols, user) ==
    pd_isna_rating(RowGetRating(row, cols, user)) /\ pd_isna(RowGetBlurb(row, cols, user))

RECURSIVE FirstOccurrences(_, _, _)
FirstOccurrences(rows, cols, seen) ==
    IF rows = <<>> THEN <<>>
    ELSE IF RowGet(Head(rows), cols, "imdb_id") \in seen
         THEN FirstOccurrences(Tail(rows), cols, seen)
         ELSE <<Head(rows)>> \o FirstOccurrences(Tail(rows), cols,
                                    seen \cup {RowGet(Head(rows), cols, "imdb_id")})

\* C1: a second pass over the same sheet with the same answers of the
\* providers, both passes ending with success, leaves the catalog file as the
\* first pass left it and writes nothing.
C1_SecondPassIdempotent ==
    (pc = "idle" /\ passes >= 2 /\ unchanged /\ prev.result = "True" /\ result = "True")
        => (json_file = prev.json_file /\ last.write = "none")

\* C2: over any sequence of passes that no exception ended, write failures
\* included, the secondary provider is called at most once for a record of
\* the catalog.
C2_AtMostOneTmdbCall ==
    (prev.result # "exception" /\ result # "exception")
        => \A i \in DOMAIN tmdb_calls : tmdb_calls[i] <= 1

\* C3: on the path of an existing film and on that of a new one, the
\* secondary provider is called iff the film's flag is not true and a token
\* is set, and after every call the film's flag is true.
C3_GatedAndFlagged ==
    (RowDone /\ last.path \in {"existing", "new"})
        => /\ last.tmdb_called <=>
                (Truthy(tmdb_bearer_token)
                    /\ (last.path = "existing" => FlagOf(last.before) \in {PyFalse, Absent}))
           /\ last.tmdb_called => FlagOf(last.after) = PyTrue

\* The case of C4: an empty catalog, one row with an identifier, the primary
\* provider answering with the film, no token, the catalog written.
C4_Case ==
    /\ PassWritten
    /\ loaded = <<>>
    /\ Len(sheet.rows) = 1
    /\ sheet.rows[1].imdb_id \in Ids
    /\ sheet.rows[1].imdb_id \in DOMAIN omdb_answers
    /\ omdb_answers[sheet.rows[1].imdb_id].kind = "ok"
    /\ ~Truthy(tmdb_bearer_token)

C4_RecordFromRow(film, row) ==
    /\ film.crew = NoCrew
    /\ film.movieClubInfo.present
    /\ film.movieClubInfo.watchDate = row.watch_date
    /\ film.movieClubInfo.selector = row.selected_by
    /\ film.movieClubInfo.trophyNotes = row.trophy_notes
    /\ film.movieClubInfo.trophyInfo = None
    /\ \A u \in {users[k] : k \in 1..Len(users)} :
          IF BothCellsEmpty(row, sheet.cols, u)
          THEN EntriesOf(RatingsOf(film), u) = <<>>
          ELSE EntriesOf(RatingsOf(film), u) =
                  <<RatingEntry(u, NormalizeScore(RowGetRating(row, sheet.cols, u)),
                                RowGetBlurb(row, sheet.cols, u))>>
    /\ \A i \in 1..Len(RatingsOf(film)) :
          \E k \in 1..Len(users) : RatingsOf(film)[i].user = users[k]

\* C4: from an empty catalog, a pass over one row with an identifier, the
\* primary provider answering with the film and no token set, writes a
\* catalog of one film whose flag is false, without crew fields, its club
\* block that of the row.
C4_NewFilmWithoutToken ==
    C4_Case =>
        /\ json_file.state = "ok"
        /\ Len(json_file.films) = 1
        /\ FlagOf(json_file.films[1]) = PyFalse
        /\ C4_RecordFromRow(json_file.films[1], sheet.rows[1])

C4_Witness ==
    /\ C4_Case
    /\ Truthy(sheet.rows[1].watch_date)
    /\ RatingsOf(json_file.films[1]) # <<>>

\* C4 as stated: the flag of that film is true.
C4_AsStated ==
    C4_Case =>
        /\ Len(json_file.films) = 1
        /\ FlagOf(json_file.films[1]) = PyTrue
        /\ C4_RecordFromRow(json_file.films[1], sheet.rows[1])

\* C5: when the primary provider gives no film for a new identifier, the
\* row adds nothing and the pass goes on to the next row.
C5_OmdbFailureIsolated ==
    (RowDone /\ last.omdb_called /\ ~last.tmdb_called /\ last.after = NoFilm)
        => /\ ~last.raised
           /\ pc = "rows"
           /\ last.path = "new_failed"

\* C6: whatever the secondary provider answers, the pass goes on and the
\* row's film is updated or created.
C6_TmdbNeverBlocks ==
    (RowDone /\ last.tmdb_called)
        => /\ ~last.raised
           /\ pc = "rows"
           /\ last.after # NoFilm

\* C7: the row of an empty or missing identifier leaves the catalog, the
\* new films, the processed identifiers and the changed flag as they were
\* and calls no provider.
C7_BlankRowInert ==
    [][(RowsLeft /\ ThisRow.imdb_id \in {None, ""})
          => /\ films_data' = films_data
             /\ new_films_to_append' = new_films_to_append
             /\ processed_sheet_ids' = processed_sheet_ids
             /\ changes_made' = changes_made
             /\ json_file' = json_file
             /\ omdb_answers' = omdb_answers
             /\ tmdb_answers' = tmdb_answers
             /\ ~last'.omdb_called
             /\ ~last'.tmdb_called
             /\ ~last'.raised]_vars

C7_Witness ==
    /\ RowDone
    /\ last.row.imdb_id \in {None, ""}
    /\ row_idx = 3
    /\ changes_made
    /\ processed_sheet_ids # {}
    /\ Truthy(omdb_api_key)
    /\ Truthy(tmdb_bearer_token)

\* C8: the row of an identifier of whitespace only is dropped as a blank
\* one is: not looked up, not marked processed, no request to the primary
\* provider.
C8_WhitespaceRowDropped ==
    (RowDone /\ last.row.imdb_id = " " /\ Truthy(omdb_api_key))
        => /\ last.path = "blank"
           /\ " " \notin processed_sheet_ids
           /\ ~last.omdb_called

\* The loop over the sheet's first occurrences, from the catalog this pass
\* loaded and with the answers this pass got.
C9_Deduplicated ==
    RunRows(LoadFilms(loaded), FirstOccurrences(sheet.rows, sheet.cols, {}), sheet.cols,
            omdb_api_key, tmdb_bearer_token, omdb_answers, tmdb_answers)

\* C9: the catalog after a pass equals the catalog after a pass over the
\* sheet without the later occurrences of each identifier, and the two
\* passes write, or end with an exception, alike.
C9_FirstOccurrenceWins ==
    /\ PassDone =>
          /\ ~C9_Deduplicated.raised
          /\ films_data = C9_Deduplicated.films_data
          /\ changes_made = C9_Deduplicated.changes_made
          /\ last.write = "ok" => json_file.films = C9_Deduplicated.films_data
    /\ (RowDone /\ last.raised) => C9_Deduplicated.raised

C9_Witness ==
    /\ PassWritten
    /\ Len(sheet.rows) = 2
    /\ sheet.rows[1].imdb_id = sheet.rows[2].imdb_id
    /\ sheet.rows[1] # sheet.rows[2]
    /\ sheet.rows[1].imdb_id \in Ids
    /\ loaded # <<>>
    /\ sheet.rows[1].imdb_id = loaded[1].imdbID

\* C10: on the path of an existing film, the entries of a roster member
\* whose rating cell and blurb cell are both empty are after the row what
\* they were before it, none added.
C10_EmptyCellsKeepEntry ==
    (RowDone /\ last.path = "existing")
        => \A k \in 1..Len(users) :
              BothCellsEmpty(last.row, sheet.cols, users[k])
                  => EntriesOf(RatingsOf(last.after), users[k])
                        = EntriesOf(RatingsOf(last.before), users[k])

C10_Witness ==
    /\ RowDone
    /\ last.path = "existing"
    /\ BothCellsEmpty(last.row, sheet.cols, "andy")
    /\ ~BothCellsEmpty(last.row, sheet.cols, "gabe")
    /\ EntriesOf(RatingsOf(last.before), "andy") # <<>>
    /\ RatingsOf(last.after) # RatingsOf(last.before)

RowTookEffect == RowDone /\ last.path \in {"existing", "new"} /\ ~last.raised

\* The score the rule of C11 gives for the text of a sheet cell.
C11_ScoreOf(text) ==
    IF text = <<>> THEN NullScore
    ELSE IF ~PyFloat(text).ok THEN StrScore(text)
    ELSE IF PyFloat(text).val.fp = <<>> THEN IntScore(PyFloat(text).val.ip)
    ELSE PyFloat(text).val

\* C11: on the path of a new film and on that of an existing one, the score
\* stored for a member whose row has a blurb is null for an empty rating
\* cell, the integer for a whole number, the decimal for another number and
\* the text of the cell when it is no number.
C11_ScoreNormalized ==
    (RowTookEffect /\ ~pd_isna(RowGetBlurb(last.row, sheet.cols, "andy")))
        => /\ Len(EntriesOf(RatingsOf(last.after), "andy")) = 1
           /\ EntriesOf(RatingsOf(last.after), "andy")[1].score
                 = C11_ScoreOf(last.row.csv["andy"])

ClubOf(film) == film.movieClubInfo

OnExistingPath == RowDone /\ last.path = "existing"

\* C12: on the path of an existing film, when the sheet has the trophy
\* notes column the stored trophy notes after the row are the cell, null for
\* an empty cell; when the sheet has no such column they are what they were.
C12_TrophyNotesFollowCell ==
    OnExistingPath =>
        IF HasCol(sheet.cols, "trophy_notes")
        THEN DictGet(ClubOf(last.after).trophyNotes) = last.row.trophy_notes
        ELSE ClubOf(last.after).trophyNotes = ClubOf(last.before).trophyNotes

C12_Witness ==
    /\ OnExistingPath
    /\ HasCol(sheet.cols, "trophy_notes")
    /\ last.row.trophy_notes = None
    /\ ClubOf(last.before).trophyNotes = "cult"
    /\ ClubOf(last.after).trophyNotes = None

\* C13: on the path of an existing film, the stored watch date (selector)
\* after the row is what it was when the cell is empty, and the cell when
\* it is not.
C13_WatchDateSelectorKept ==
    OnExistingPath =>
        /\ ClubOf(last.after).watchDate =
              IF pd_isna(last.row.watch_date) THEN ClubOf(last.before).watchDate
              ELSE last.row.watch_date
        /\ ClubOf(last.after).selector =
              IF pd_isna(last.row.selected_by) THEN ClubOf(last.before).selector
              ELSE last.row.selected_by

C13_Witness ==
    /\ OnExistingPath
    /\ pd_isna(last.row.watch_date)
    /\ ~pd_isna(last.row.selected_by)
    /\ ClubOf(last.before).watchDate = "2023-10-31"
    /\ ClubOf(last.after).watchDate = "2023-10-31"
    /\ ClubOf(last.before).selector = "gabe"
    /\ ClubOf(last.after).selector = "andy"

\* The row of this identifier created a film in this pass.
Creates(id) ==
    /\ id \notin {None, ""}
    /\ id \notin DOMAIN films_dict
    /\ Truthy(omdb_api_key)
    /\ id \in DOMAIN omdb_answers
    /\ omdb_answers[id].kind = "ok"

CreatingRows ==
    SelectSeq(FirstOccurrences(sheet.rows, sheet.cols, {}), LAMBDA row : Creates(row.imdb_id))

\* C14: after a pass the films the catalog had at its start are at the
\* positions they had, and the films created in the pass follow them in the
\* order of the rows that created them; the file written is that catalog.
C14_OrderPreserved ==
    PassDone =>
        /\ Len(films_data) = Len(loaded) + Len(CreatingRows)
        /\ \A i \in 1..Len(loaded) :
              /\ films_data[i].imdbID = loaded[i].imdbID
              /\ films_data[i].title = loaded[i].title
        /\ \A k \in 1..Len(CreatingRows) :
              /\ films_data[Len(loaded) + k].imdbID
                    = omdb_answers[CreatingRows[k].imdb_id].imdbID
              /\ ClubOf(films_data[Len(loaded) + k]).watchDate = CreatingRows[k].watch_date
              /\ ClubOf(films_data[Len(loaded) + k]).trophyNotes
                    = CreatingRows[k].trophy_notes
        /\ last.write = "ok" => json_file.films = films_data

C14_Witness ==
    /\ PassWritten
    /\ Len(loaded) = 1
    /\ Len(sheet.rows) = 2
    /\ sheet.rows[1].imdb_id = "tt2"
    /\ sheet.rows[2].imdb_id = "tt1"
    /\ Len(json_file.films) = 2
    /\ json_file.films[1].imdbID = "tt1"
    /\ json_file.films[1] # loaded[1]
    /\ json_file.films[2].imdbID = "tt2"

CatalogChanged ==
    \/ Len(films_data) > Len(loaded)
    \/ \E i \in 1..Len(loaded) : films_data[i] # loaded[i]

\* C15: at the end of a pass the catalog is written iff a film was created
\* or a film of the catalog is not what it was at the start of the pass; and
\* the file is written only when no row is left.
C15_WrittenIffChanged ==
    /\ [](PassDone => (last.write # "none" <=> CatalogChanged))
    /\ [][json_file' # json_file => (pc = "rows" /\ row_idx > Len(sheet.rows))]_vars

C15_Witness ==
    /\ PassDone
    /\ last.write = "none"
    /\ loaded # <<>>
    /\ films_data = loaded
    /\ sheet.rows[1].imdb_id \in processed_sheet_ids
    /\ ~pd_isna_rating(sheet.rows[1].rating["andy"])

RunEnded == pc = "idle" /\ passes >= 1

\* A run exits with status 0 when main returns True (lines 378-382).
ExitsZero == result = "True"

WriteFailed == last.step = "finish" /\ last.write \in {"io_error", "partial"}

\* C16: a run for which the sheet was fetched exits with a non-zero status
\* iff the final write of the catalog failed.
C16_FailsIffWriteFails ==
    (RunEnded /\ last.step # "no_sheet") => (~ExitsZero <=> WriteFailed)

\* C17: a pass that finds the catalog file missing or not as it should be
\* does not fail for it; it starts from an empty catalog, every row with an
\* identifier not yet seen takes the path of a new film, and the catalog
\* written holds the films the pass created and no other.
C17_UnreadableMeansEmpty ==
    (prev.json_file.state # "ok" /\ last.step \notin {"none", "no_sheet", "nothing"})
        => /\ last.step # "load"
           /\ loaded = <<>>
           /\ RowDone => last.path \in {"blank", "duplicate", "new", "new_failed"}
           /\ PassWritten => json_file.films = new_films_to_append

\* C18: no two films of the catalog file have the same imdbID (no catalog
\* the runs start from has two).
C18_UniqueIdentifiers ==
    \A i, j \in 1..Len(json_file.films) :
        i # j => json_file.films[i].imdbID # json_file.films[j].imdbID

UniqueRatings(film) ==
    \A i, j \in 1..Len(RatingsOf(film)) :
        i # j => Lower(RatingsOf(film)[i].user) # Lower(RatingsOf(film)[j].user)

AllUnique(films) == \A i \in 1..Len(films) : UniqueRatings(films[i])

\* C19: from a catalog whose films have at most one rating entry per
\* member, names compared without case, every film of the catalog, in the
\* file and in memory, created or updated, has at most one entry per member
\* after any runs.
C19_OneEntryPerMember ==
    /\ AllUnique(json_file.films)
    /\ AllUnique(films_data)
    /\ AllUnique(new_films_to_append)

C19_Witness ==
    /\ passes = 2
    /\ PassWritten
    /\ Len(json_file.films) = 2
    /\ Len(RatingsOf(json_file.films[1])) = 3
    /\ RatingsOf(json_file.films[1])[1].user = "Andy"
    /\ RatingsOf(json_file.films[1])[1].blurb = "good"
    /\ RatingsOf(json_file.films[1])[3].user = "gabe"
    /\ json_file.films[2].imdbID = "tt2"
    /\ json_file # prev.json_file

\* The score and the blurb the rule of C20 gives for the cells of a member.
C20_Score(row, cols, user) ==
    IF pd_isna_rating(RowGetRating(row, cols, user)) THEN NullScore
    ELSE C11_ScoreOf(RowGetRating(row, cols, user))

C20_Blurb(row, cols, user) ==
    IF pd_isna(RowGetBlurb(row, cols, user)) THEN None ELSE RowGetBlurb(row, cols, user)

HasValues(entry, score, blurb) == ~ScoreNe(entry.score, score) /\ DictGet(entry.blurb) = blurb

\* The entry at place i of a member who had one: overwritten with the
\* values, or the same entry when it had them.
C20_Overwritten(before, after, i, score, blurb) ==
    /\ i <= Len(after)
    /\ after[i].user = before[i].user
    /\ HasValues(after[i], score, blurb)
    /\ HasValues(before[i], score, blurb) => after[i] = before[i]

\* The one entry of a member who had none, after the entries there were.
C20_Appended(before, after, user, score, blurb) ==
    /\ EntriesOf(after, user) = <<RatingEntry(user, score, blurb)>>
    /\ \E i \in (Len(before) + 1)..Len(after) : after[i] = RatingEntry(user, score, blurb)

C20_Member(before, after, user, score, blurb) ==
    IF EntriesOf(before, user) # <<>>
    THEN \A i \in 1..Len(before) :
            Lower(before[i].user) = user => C20_Overwritten(before, after, i, score, blurb)
    ELSE C20_Appended(before, after, user, score, blurb)

Appending(row, cols, before) ==
    {k \in 1..Len(users) : ~BothCellsEmpty(row, cols, users[k]) /\ EntriesOf(before, users[k]) = <<>>}

\* C20: on the path of an existing film, a roster member with a cell that is
\* not empty and with an entry (names compared without case) has after the
\* row that entry with the normalized score and blurb, null for an empty
\* cell, the very entry when it had them already; a member without an entry
\* has exactly one, of the normalized values, after the entries there were,
\* and nothing else is added.
C20_OverwriteOrAppend ==
    OnExistingPath =>
        /\ \A k \in 1..Len(users) :
              ~BothCellsEmpty(last.row, sheet.cols, users[k])
                  => C20_Member(RatingsOf(last.before), RatingsOf(last.after), users[k],
                                C20_Score(last.row, sheet.cols, users[k]),
                                C20_Blurb(last.row, sheet.cols, users[k]))
        /\ Len(RatingsOf(last.after)) = Len(RatingsOf(last.before))
              + Cardinality(Appending(last.row, sheet.cols, RatingsOf(last.before)))

C20_Witness ==
    /\ OnExistingPath
    /\ RatingsOf(last.before) = <<RatingEntry("Andy", IntScore(7), "fine"),
                                  RatingEntry("pat", IntScore(3), None)>>
    /\ last.row.rating["andy"] = <<"8">>
    /\ last.row.blurb["andy"] = None
    /\ RatingsOf(last.after) = <<RatingEntry("Andy", IntScore(8), None),
                                 RatingEntry("pat", IntScore(3), None),
                                 RatingEntry("gabe", FloatScore(7, <<"5">>), None)>>

InRoster(user) == \E k \in 1..Len(users) : users[k] = Lower(user)

NonRoster(ratings) == SelectSeq(ratings, LAMBDA entry : ~InRoster(entry.user))

\* The entries there were are where they were, under the names they had, and
\* those of no roster member are what they were.
C21_Kept(before, after) ==
    /\ Len(after) >= Len(before)
    /\ \A i \in 1..Len(before) :
          /\ after[i].user = before[i].user
          /\ ~InRoster(before[i].user) => after[i] = before[i]
    /\ NonRoster(after) = NonRoster(before)

\* C21: at every step of a pass, each film the catalog had at the start of
\* the pass has the rating entries of members outside the roster it had
\* then, unchanged, none added and none removed, and all the entries it had
\* in the order they had; a film created in the pass has no entry of a
\* member outside the roster.
C21_NonRosterUntouched ==
    (pc = "rows" \/ PassDone) =>
        /\ Len(films_data) >= Len(loaded)
        /\ \A i \in 1..Len(loaded) :
              C21_Kept(RatingsOf(loaded[i]), RatingsOf(films_data[i]))
        /\ \A i \in (Len(loaded) + 1)..Len(films_data) :
              NonRoster(RatingsOf(films_data[i])) = <<>>
        /\ \A i \in 1..Len(new_films_to_append) :
              NonRoster(RatingsOf(new_films_to_append[i])) = <<>>

C21_Witness ==
    /\ PassDone
    /\ Len(loaded) = 1
    /\ Len(films_data) = 2
    /\ RatingsOf(loaded[1]) = <<RatingEntry("Andy", IntScore(7), "fine"),
                                RatingEntry("pat", IntScore(3), None)>>
    /\ RatingsOf(films_data[1]) = <<RatingEntry("Andy", IntScore(8), "good"),
                                    RatingEntry("pat", IntScore(3), None)>>
    /\ RatingsOf(films_data[2]) = <<RatingEntry("gabe", FloatScore(7, <<"5">>), None)>>

OnNewPath == RowDone /\ last.path = "new" /\ ~last.raised

\* C22: the ratings of a film created from a row are those the merge of the
\* path of an existing film gives from no entries and the same row, entry
\* for entry; the club block of the film has trophy info null and the
\* selector, the watch date and the trophy notes of the row.
C22_NewRatingsAreMerge ==
    OnNewPath =>
        /\ RatingsOf(last.after) = MergeRatings(<<>>, last.row, sheet.cols)
        /\ ClubOf(last.after).trophyInfo = None
        /\ ClubOf(last.after).selector = RowGet(last.row, sheet.cols, "selected_by")
        /\ ClubOf(last.after).watchDate = RowGet(last.row, sheet.cols, "watch_date")
        /\ ClubOf(last.after).trophyNotes = RowGet(last.row, sheet.cols, "trophy_notes")

C22_Witness ==
    /\ OnNewPath
    /\ last.row.csv["andy"] = <<"8", ".", "0">>
    /\ last.row.blurb["andy"] = "fine"
    /\ last.row.watch_date = "2024-01-05"
    /\ last.row.trophy_notes = None
    /\ RatingsOf(last.after) = <<RatingEntry("andy", IntScore(8), "fine"),
                                 RatingEntry("gabe", FloatScore(7, <<"5">>), None)>>
    /\ ClubOf(last.after).watchDate = "2024-01-05"

\* What the secondary provider returned for the row just processed.
TmdbReturned ==
    get_tmdb_film_details(last.row.imdb_id, tmdb_bearer_token,
                          TmdbAnswerFor(tmdb_answers, last.row.imdb_id))

\* The row just processed is that of an existing film whose flag was not
\* true, a token is set and the provider returned crew fields.
C23_Case ==
    /\ OnExistingPath
    /\ ~last.raised
    /\ Truthy(tmdb_bearer_token)
    /\ FlagOf(last.before) \in {PyFalse, Absent}
    /\ HasCrewData(TmdbReturned)

\* The film has the returned fields and the flag; all else is what the row
\* alone makes of the film.
C23_Merged(before, after, crew) ==
    /\ FlagOf(after) = PyTrue
    /\ \A f \in EXPECTED_TMDB_CREW_FIELDS :
          after.crew[f] = IF crew[f] # <<>> THEN crew[f] ELSE before.crew[f]
    /\ after.imdbID = before.imdbID
    /\ after.title = before.title
    /\ ClubOf(after) = ClubOf(UpdateClubInfo(before, last.row, sheet.cols))

\* The secondary provider was called for this film of the catalog in a pass
\* before this one.
CalledBefore ==
    tmdb_calls[films_dict[last.row.imdb_id]] - (IF last.tmdb_called THEN 1 ELSE 0) >= 1

C23_FirstPass == C23_Case => C23_Merged(last.before, last.after, TmdbReturned.crew)

C23_SecondPass ==
    (OnExistingPath /\ passes = 1 /\ unchanged /\ CalledBefore
        /\ HasCrewData(TmdbReturned))
        => (~last.tmdb_called /\ last.after = last.before)

\* C23: an existing film whose flag is not true, a token set and crew fields
\* returned, has after its row the returned fields and the flag true and is
\* otherwise what the row alone makes of it; in a second pass on the same
\* inputs the secondary provider is not called for it and its row leaves it
\* as it was.
C23_EnrichedOnce == C23_FirstPass /\ C23_SecondPass

\* The identifiers of the rows the loop acts on (line 188), in the sheet the
\* pass was started on: a blank identifier is passed over, a repeated one
\* names the row of its first occurrence.
ActionableIds ==
    {prev.sheet.rows[i].imdb_id : i \in 1..Len(prev.sheet.rows)} \ {None, ""}

\* C24: at every step of a pass and at its end, each film the catalog had at
\* the start of the pass is in the catalog, at its place; a film whose
\* identifier no actionable row has is what it was at the start, flag and
\* club block included, and the secondary provider is called only for the
\* film of the row being processed; the file written holds that catalog.
C24_NoneDeletedNoneTouched ==
    /\ (pc = "rows" \/ PassDone) =>
          /\ Len(films_data) >= Len(loaded)
          /\ \A i \in 1..Len(loaded) :
                /\ films_data[i].imdbID = loaded[i].imdbID
                /\ loaded[i].imdbID \notin ActionableIds => films_data[i] = loaded[i]
    /\ (RowDone /\ last.tmdb_called /\ last.path = "existing")
          => last.before.imdbID = last.row.imdb_id
    /\ PassWritten => json_file.films = films_data

C24_Witness ==
    /\ PassWritten
    /\ Truthy(tmdb_bearer_token)
    /\ loaded = <<LegacyFilm("tt2"), UnenrichedFilm("tt1")>>
    /\ ActionableIds = {"tt1"}
    /\ json_file.films[1] = LegacyFilm("tt2")
    /\ json_file.films[2] # UnenrichedFilm("tt1")
    /\ FlagOf(json_file.films[2]) = PyTrue
    /\ Len(json_file.films) = 2

\* The row just processed is that of id, not in the catalog, and the primary
\* provider was asked and answered with a film.
PrimarySucceeded(id) ==
    /\ RowDone
    /\ last.row.imdb_id = id
    /\ last.path = "new"
    /\ last.omdb_called
    /\ get_omdb_film_details(id, omdb_api_key, OmdbAnswerFor(omdb_answers, id)).outcome = "data"

\* The film of the row just processed was created, its club block from the
\* row, and the run is marked changed.
C25_Created ==
    /\ ~last.raised
    /\ changes_made
    /\ new_films_to_append # <<>>
    /\ new_films_to_append[Len(new_films_to_append)] = last.after
    /\ ClubOf(last.after).present
    /\ ClubOf(last.after).watchDate = RowGet(last.row, sheet.cols, "watch_date")
    /\ ClubOf(last.after).selector = RowGet(last.row, sheet.cols, "selected_by")
    /\ ClubOf(last.after).trophyNotes = RowGet(last.row, sheet.cols, "trophy_notes")

\* C25: in the pass after one in which the primary provider failed for the
\* row of an identifier the catalog did not have, when the primary provider
\* answers that row with a film, the film is created with the club block of
\* the row and the run is marked changed.
C25_RetriedAndCreated ==
    \A id \in prev.omdb_failed : PrimarySucceeded(id) => C25_Created

\* The films of the list keep a flag that is true, and a flag that changes
\* becomes true.
FlagsOnlyRise(films, films_after) ==
    /\ Len(films_after) >= Len(films)
    /\ \A i \in 1..Len(films) :
          /\ FlagOf(films[i]) = PyTrue => FlagOf(films_after[i]) = PyTrue
          /\ FlagOf(films_after[i]) # FlagOf(films[i]) => FlagOf(films_after[i]) = PyTrue

\* C26: no step of a pass makes a flag that is true in the catalog in memory
\* false or removes it, and a flag changes only to true; a film created has
\* the flag false when the secondary provider was not asked for it and true
\* when it was.
C26_FlagMonotone ==
    /\ [][pc = "rows" => /\ FlagsOnlyRise(films_data, films_data')
                         /\ (pc' = "rows" =>
                               FlagsOnlyRise(new_films_to_append, new_films_to_append'))]_vars
    /\ [](OnNewPath =>
            FlagOf(last.after) = IF last.tmdb_called THEN PyTrue ELSE PyFalse)

C26_Witness ==
    /\ OnExistingPath
    /\ Truthy(tmdb_bearer_token)
    /\ FlagOf(last.before) = PyTrue
    /\ FlagOf(last.after) = PyTrue
    /\ last.after # last.before
    /\ ~last.tmdb_called
    /\ films_data = <<last.after>>

====
